---------------------------- MODULE Spec2Model ----------------------------
(***************************************************************************)
(* Node-graph execution engine of the flow builder backend:                *)
(*   app/core/node_registry.py      NodeRegistry (types, handlers,         *)
(*                                  execute_node)                          *)
(*   app/services/flow_execution.py FlowExecutor (execute_flow, traversal, *)
(*                                  port mapping)                          *)
(* Python dicts are functions with a string domain, None is the sentinel   *)
(* None (strings) or NoTime (numbers), and datetime.now() reads clock.     *)
(***************************************************************************)
EXTENDS Integers, Sequences, FiniteSets, TLC

(* ------------------------------ bounds -------------------------------- *)
\* Most register_node_type calls made after start-up.
MaxRegs == 3
\* Clock ticks in one second: time.time() is read to a fraction of a second.
TicksPerSecond == 2
\* Last tick the rate limiter's clock reaches.
MaxNow == 5
\* Most is_rate_limited calls made.
MaxCalls == 3
\* Longest node list and longest edge list of a save payload.
MaxPayload == 2
\* Highest version a flow reaches.
MaxVersion == 2
\* Longest list of NodeConnection rows a stored flow holds.
MaxConns == 3
\* Latest instant the wall clock reaches.
MaxClock == 2

(* ------------------------------ values -------------------------------- *)
None == "None"
NoTime == -1
EmptyMap == [k \in {} |-> k]

\* The value a node emits on one of its output ports in this run.
Val(n, p) == [node |-> n, port |-> p]

\* dict.copy() followed by dict.update(over): keys of over win.
MapUpdate(base, over) ==
    [k \in DOMAIN base \cup DOMAIN over |->
        IF k \in DOMAIN over THEN over[k] ELSE base[k]]

NodeIds == {"n1", "n2", "n3"}
\* A node id that no NodeInstance row of the flow carries.
ForeignId == "nx"
SourcePorts == {"a", "b"}
TargetPorts == {"x", "y"}

\* Outputs an executor of node n can produce: a subset of its ports.
OutputsOf(n, ps) == [p \in ps |-> Val(n, p)]

(* ------------------------- NodeExecutionResult ------------------------ *)
NodeExecutionResult(outputs, status, error, ms, started, completed) ==
    [outputs |-> outputs, status |-> status, error |-> error,
     execution_time_ms |-> ms, started_at |-> started,
     completed_at |-> completed]

(* ---------------------------- NodeRegistry ---------------------------- *)
\* The registry after start-up: the built-in trigger and one plug-in
\* processor; "ghost" is a type id no one registered.
TriggerType == "chat-input"
ProcessorType == "simple-openai-chat"
GhostType == "ghost"
TypeIds == {TriggerType, ProcessorType, GhostType}

StartupNodeTypes ==
    [t \in {TriggerType, ProcessorType} |->
        IF t = TriggerType THEN [id |-> t, category |-> "trigger"]
                           ELSE [id |-> t, category |-> "processor"]]
StartupHandlers == {TriggerType, ProcessorType}

\* What a handler does when awaited: it returns a result object or raises,
\* after dur clock units.
Returns(res, dur) == [kind |-> "return", result |-> res, dur |-> dur]
Raises(msg, dur) == [kind |-> "raise", msg |-> msg, dur |-> dur]

\* str(e) of the exceptions an executor raises; an exception built without
\* arguments (asyncio.TimeoutError()) has the empty string.
ExceptionMessages == {"", "boom"}

\* An outcome of a call: a value returned or an exception propagated.
Returned(v) == [raised |-> FALSE, value |-> v]
Propagated(exc, msg) == [raised |-> TRUE, exc |-> exc, msg |-> msg]

\* NodeRegistry.get_node_type
GetNodeType(types, id) ==
    IF id \notin DOMAIN types
    THEN Propagated("ValueError", "Node type not found")
    ELSE Returned(types[id])

\* The except branch of execute_node: every Exception of the handler becomes
\* an error result carrying str(e).
RegistryCatches(msg, tc, gap) ==
    Returned(NodeExecutionResult(EmptyMap, "error", msg, None, tc, tc + gap))

\* The timing fill-in of the try branch.
FillTiming(r, start_time, end_time) ==
    [r EXCEPT
       !.started_at = IF @ = NoTime THEN start_time ELSE @,
       !.completed_at = IF @ = NoTime THEN end_time ELSE @,
       !.execution_time_ms =
           IF @ = NoTime \/ @ = 0 THEN end_time - start_time ELSE @]

\* A registry that awaits a handler whether or not the type id has one.
ExecuteNodeWithoutLookup(handlers, node_type_id, beh, t0, gap) ==
    IF beh.kind = "return"
    THEN Returned(FillTiming(beh.result, t0, t0 + beh.dur))
    ELSE RegistryCatches(beh.msg, t0 + beh.dur, gap)

\* NodeRegistry.execute_node(node_type_id, context) called at instant t0
\* with the handler behaving as beh; gap is the time between the two
\* datetime.now() calls of the except branch.
ExecuteNode(handlers, node_type_id, beh, t0, gap) ==
    IF node_type_id \notin handlers
    THEN Propagated("ValueError", "No execution handler found")
    ELSE IF beh.kind = "return"
         THEN Returned(FillTiming(beh.result, t0, t0 + beh.dur))
         ELSE RegistryCatches(beh.msg, t0 + beh.dur, gap)

(* ------------------------- port mapping rule -------------------------- *)
\* A port rule that always hands over the source's whole outputs map.
PrepareTargetInputsAllOutputs(source_node_id, source_port_id, target_port_id, outs) ==
    IF source_node_id \notin DOMAIN outs
    THEN [inputs |-> EmptyMap]
    ELSE [inputs |-> outs[source_node_id]]

\* A port rule that hands over nothing when the source port is absent.
PrepareTargetInputsNoFallback(source_node_id, source_port_id, target_port_id, outs) ==
    IF source_node_id \notin DOMAIN outs
    THEN [inputs |-> EmptyMap]
    ELSE LET source_outputs == outs[source_node_id] IN
         IF source_port_id \in DOMAIN source_outputs
         THEN [inputs |->
                 [p \in {target_port_id} |-> source_outputs[source_port_id]]]
         ELSE [inputs |-> EmptyMap]

\* A port rule that keys the routed value by the source port.
PrepareTargetInputsKeyedBySource(source_node_id, source_port_id, target_port_id, outs) ==
    IF source_node_id \notin DOMAIN outs
    THEN [inputs |-> EmptyMap]
    ELSE LET source_outputs == outs[source_node_id] IN
         IF source_port_id \in DOMAIN source_outputs
         THEN [inputs |->
                 [p \in {source_port_id} |-> source_outputs[source_port_id]]]
         ELSE [inputs |-> source_outputs]

\* FlowExecutor._prepare_target_inputs
PrepareTargetInputs(source_node_id, source_port_id, target_port_id, outs) ==
    IF source_node_id \notin DOMAIN outs
    THEN [inputs |-> EmptyMap]
    ELSE LET source_outputs == outs[source_node_id] IN
         IF source_port_id \in DOMAIN source_outputs
         THEN [inputs |->
                 [p \in {target_port_id} |-> source_outputs[source_port_id]]]
         ELSE [inputs |-> source_outputs]

(* ----------------------------- flow graph ----------------------------- *)
Connection(s, t, sp, tp) ==
    [sourceNodeId |-> s, targetNodeId |-> t,
     sourcePortId |-> sp, targetPortId |-> tp]

\* Every connection between two nodes, or from a node to a foreign id, on
\* one pair of ports.
Connections ==
    {Connection(s, t, "a", "x") : s \in NodeIds, t \in NodeIds \cup {ForeignId}}

\* The traversal reads the list only through the sub-list of one source
\* (outgoing_connections), so the lists are given grouped by source.
SourceRank(n) == IF n = "n1" THEN 1 ELSE IF n = "n2" THEN 2 ELSE 3
GroupedBySource(cs) ==
    \A i \in 1..(Len(cs) - 1) :
        SourceRank(cs[i].sourceNodeId) <= SourceRank(cs[i + 1].sourceNodeId)

ConnSeqsOver(C) ==
    {cs \in UNION {[1..n -> C] : n \in 0..MaxConns} : GroupedBySource(cs)}
ConnSeqs == ConnSeqsOver(Connections)

\* Node ids are opaque dictionary keys, so the type assignments are listed
\* up to a renaming of the nodes: types in a fixed order along n1, n2, n3.
TypeRank(t) == IF t = TriggerType THEN 0 ELSE IF t = ProcessorType THEN 1 ELSE 2
Typings ==
    {ty \in [NodeIds -> TypeIds] :
        /\ TypeRank(ty["n1"]) <= TypeRank(ty["n2"])
        /\ TypeRank(ty["n2"]) <= TypeRank(ty["n3"])}

\* A node_data dictionary; settings is node_data.get('data', {}).get('settings', {}).
NodeData(n, ty, settings) == [id |-> n, typeId |-> ty, settings |-> settings]

FlowIds == {1, 2}
UserIds == {"u1", "u2"}
StoredFlows == [f \in {1} |-> [id |-> f, user_id |-> "u1", name |-> "flow"]]

\* trigger_inputs the callers pass (None becomes {}).
TriggerInputs == {[user_input |-> Val("caller", "user_input")]}

\* Handler behaviours in a flow run: success with outputs on two ports, an
\* error result with no outputs or with a partial output, an exception.
FlowBehaviours(n) ==
    {Returns(NodeExecutionResult(OutputsOf(n, {"a", "c"}), "success", None, NoTime, NoTime, NoTime), 0),
     Returns(NodeExecutionResult(EmptyMap, "error", "failed", NoTime, NoTime, NoTime), 0),
     Returns(NodeExecutionResult(OutputsOf(n, {"a"}), "error", "failed", NoTime, NoTime, NoTime), 0),
     Raises("boom", 0)}

(* ------------------------------- state -------------------------------- *)
VARIABLES
    node_types,           \* NodeRegistry._node_types
    execution_handlers,   \* keys of NodeRegistry._execution_handlers
    db_flows,             \* flows table: id -> row
    db_nodes,             \* node_instances rows of flow 1: id -> row
    db_connections,       \* node_connections rows of flow 1, in query order
    clock,                \* datetime.now()
    pc,                   \* "idle", "running", "done" or "failed"
    call,                 \* arguments of the execute_flow call
    raised,               \* the exception execute_flow raised, if any
    summary,              \* the dictionary execute_flow returned
    nodes_by_id,          \* local of _execute_flow_modular
    connections_data,     \* local of execute_flow
    execution_results,    \* local of _execute_flow_modular
    executed_nodes,       \* local of _execute_flow_modular
    node_outputs,         \* local of _execute_flow_modular
    stack,                \* frames of _execute_connected_nodes
    awaiting,             \* the _execute_node_modular call in progress
    exec_log,             \* node ids passed to _execute_node_modular, in order
    invoked,              \* node ids whose handler was awaited, in order
    contexts,             \* final_context handed to the registry, per node
    via,                  \* the connection whose processing executed a node
    processed,            \* connections in the order the loops took them
    behaviours,           \* what the handler of a node did when awaited
    reg_call,             \* last NodeRegistry.execute_node call and outcome
    port_call,            \* last _prepare_target_inputs call and outcome
    runs,                 \* locals of each of several execute_flow calls
    types_log,            \* descriptors passed to register_node_type, in order
    type_call,            \* last get_node_type call and outcome
    now,                  \* time.time(), in ticks
    redis_key,            \* the Redis entry rate_limit:<key>, with its expiry
    limiter,              \* position and locals of each is_rate_limited call
    limit_log,            \* completed is_rate_limited calls, in order
    tables,               \* flows, node_instances and node_connections tables
    save_call             \* last save_flow request and its outcome

registry_vars == <<node_types, execution_handlers>>
db_vars == <<db_flows, db_nodes, db_connections>>
run_vars == <<pc, call, raised, summary, nodes_by_id, connections_data,
              execution_results, executed_nodes, node_outputs, stack,
              awaiting, exec_log, invoked, contexts, via, processed,
              behaviours>>
\* State of the components the single-call actions do not touch.
register_vars == <<types_log, type_call>>
limiter_vars == <<now, redis_key, limiter, limit_log>>
save_vars == <<tables, save_call>>
outside_vars == <<runs, register_vars, limiter_vars, save_vars>>
vars == <<registry_vars, db_vars, clock, run_vars, reg_call, port_call,
          outside_vars>>

NoCall == <<>>

(* ---------------------------- FlowExecutor ---------------------------- *)
\* FlowExecutor._get_flow
GetFlow(flows, flow_id, user_id) ==
    IF flow_id \in DOMAIN flows /\ flows[flow_id].user_id = user_id
    THEN Returned(flows[flow_id])
    ELSE Propagated("FlowExecutionError", "not found or access denied")

\* FlowExecutor._find_trigger_nodes_modular: the ids of the trigger nodes.
FindTriggerNodesWrongCategory(nodes, types) ==
    {n \in DOMAIN nodes :
        /\ nodes[n].typeId \notin {None, ""}
        /\ ~GetNodeType(types, nodes[n].typeId).raised
        /\ GetNodeType(types, nodes[n].typeId).value.category = "processor"}
\* A scan that takes a node for a trigger when its type cannot be looked up.
FindTriggerNodesUnknownIsTrigger(nodes, types) ==
    {n \in DOMAIN nodes :
        /\ nodes[n].typeId \notin {None, ""}
        /\ \/ GetNodeType(types, nodes[n].typeId).raised
           \/ GetNodeType(types, nodes[n].typeId).value.category = "trigger"}
FindTriggerNodes(nodes, types) ==
    {n \in DOMAIN nodes :
        /\ nodes[n].typeId \notin {None, ""}
        /\ ~GetNodeType(types, nodes[n].typeId).raised
        /\ GetNodeType(types, nodes[n].typeId).value.category = "trigger"}

\* The trigger check of execute_flow.
ValidateTriggerFirstOfMany(triggers) ==
    IF Cardinality(triggers) = 0
    THEN Propagated("FlowExecutionError", "No trigger node found in flow")
    ELSE Returned(CHOOSE n \in triggers : TRUE)
ValidateTrigger(triggers) ==
    IF Cardinality(triggers) = 0
    THEN Propagated("FlowExecutionError", "No trigger node found in flow")
    ELSE IF Cardinality(triggers) > 1
    THEN Propagated("FlowExecutionError", "Multiple trigger nodes found")
    ELSE Returned(CHOOSE n \in triggers : TRUE)

\* A context that carries the settings only where no key of the execution
\* context has their name.
FinalContextInputsWin(node_data, execution_context) ==
    MapUpdate(node_data.settings, execution_context)

\* _execute_node_modular, first half: the context handed to the registry.
FinalContext(node_data, execution_context) ==
    MapUpdate(execution_context, node_data.settings)

\* The caller's trigger_inputs dictionary when no copy is taken on the way
\* to final_context.update(stored_settings).
CallersMapAliased(trigger_inputs, final_context) == final_context

\* The caller's trigger_inputs dictionary after the trigger's context is
\* built: trigger_inputs.copy() and execution_context.copy() keep the update
\* away from it.
CallersMap(trigger_inputs, final_context) == trigger_inputs

\* _execute_node_modular, second half: the registry call and the except
\* branch that turns any exception into an error result.
ExecuteNodeModular(handlers, node_data, beh, t0, gap) ==
    LET out == ExecuteNode(handlers, node_data.typeId, beh, t0, gap) IN
    IF out.raised
    THEN NodeExecutionResult(EmptyMap, "error", out.msg, None, t0, t0 + gap)
    ELSE out.value

\* A traversal that follows only the first outgoing connection of a node.
OutgoingConnectionsFirstOnly(conns, current_node_id) ==
    LET out == SelectSeq(conns, LAMBDA c : c.sourceNodeId = current_node_id) IN
    IF out = <<>> THEN out ELSE <<Head(out)>>

\* A traversal that follows every connection of the flow from every node.
OutgoingConnectionsAnySource(conns, current_node_id) == conns

\* outgoing_connections of _execute_connected_nodes
OutgoingConnections(conns, current_node_id) ==
    SelectSeq(conns, LAMBDA c : c.sourceNodeId = current_node_id)

Frame(n, todo) == [node |-> n, todo |-> todo]

\* The skip test of the traversal loop.
AlreadyExecutedNever(target_node_id, done) == FALSE
\* A skip test that also passes over a target while the source of another
\* connection into it has not executed.
AlreadyExecutedOrWaiting(target_node_id, done) ==
    \/ target_node_id \in done
    \/ \E i \in DOMAIN connections_data :
          /\ connections_data[i].targetNodeId = target_node_id
          /\ connections_data[i].sourceNodeId \notin done
AlreadyExecuted(target_node_id, done) == target_node_id \in done

\* Entering _execute_node_modular for node n with execution_context ctx;
\* conn is the connection being processed (none for the trigger).
BeginNode(n, nodes, ctx, conn) ==
    /\ via' = MapUpdate(via, [k \in {n} |-> conn])
    /\ awaiting' = <<[node |-> n, context |-> FinalContext(nodes[n], ctx)]>>
    /\ exec_log' = Append(exec_log, n)
    /\ contexts' = MapUpdate(contexts, [k \in {n} |-> FinalContext(nodes[n], ctx)])
    /\ invoked' = IF nodes[n].typeId \in execution_handlers
                  THEN Append(invoked, n) ELSE invoked

\* execute_flow up to the first await of a handler.
ExecuteFlow(flow_id, user_id, trigger_inputs) ==
    /\ pc = "idle"
    /\ LET flow == GetFlow(db_flows, flow_id, user_id)
           trig == ValidateTrigger(FindTriggerNodes(db_nodes, node_types))
       IN
       /\ call' = <<[flow_id |-> flow_id, user_id |-> user_id,
                     trigger_inputs |-> trigger_inputs,
                     callers_map |->
                        IF flow.raised \/ trig.raised THEN trigger_inputs
                        ELSE CallersMap(trigger_inputs,
                                 FinalContext(db_nodes[trig.value], trigger_inputs))]>>
       /\ IF flow.raised \/ trig.raised
          THEN /\ pc' = "failed"
               /\ raised' = <<IF flow.raised THEN flow ELSE trig>>
               /\ UNCHANGED <<summary, nodes_by_id, connections_data,
                              execution_results, executed_nodes, node_outputs,
                              stack, awaiting, exec_log, invoked, contexts, via>>
          ELSE /\ pc' = "running"
               /\ nodes_by_id' = db_nodes
               /\ connections_data' = db_connections
               /\ execution_results' = EmptyMap
               /\ executed_nodes' = {}
               /\ node_outputs' = EmptyMap
               /\ stack' = <<>>
               /\ summary' = [trigger_node_id |-> trig.value]
               /\ BeginNode(trig.value, db_nodes, trigger_inputs, <<>>)
               /\ UNCHANGED raised
    /\ UNCHANGED <<outside_vars, registry_vars, db_vars, clock, processed, behaviours,
                   reg_call, port_call>>

\* The handler completes: the result is stored and the traversal recurses
\* into the node's outgoing connections.
NodeCompletes(beh) ==
    /\ pc = "running"
    /\ awaiting # <<>>
    /\ LET n == awaiting[1].node
           result == ExecuteNodeModular(execution_handlers, nodes_by_id[n],
                                        beh, clock, 0)
       IN
       /\ execution_results' = MapUpdate(execution_results, [k \in {n} |-> result])
       /\ executed_nodes' = executed_nodes \cup {n}
       /\ node_outputs' = MapUpdate(node_outputs, [k \in {n} |-> result.outputs])
       /\ stack' = Append(stack, Frame(n, OutgoingConnections(connections_data, n)))
       /\ behaviours' =
            IF nodes_by_id[n].typeId \in execution_handlers
            THEN MapUpdate(behaviours, [k \in {n} |-> beh]) ELSE behaviours
    /\ awaiting' = <<>>
    /\ UNCHANGED <<outside_vars, registry_vars, db_vars, clock, pc, call, raised, summary,
                   nodes_by_id, connections_data, exec_log, invoked, contexts,
                   via, processed, reg_call, port_call>>

Top == stack[Len(stack)]
\* A loop that goes on to its next connection while an executor it started
\* has not completed.
TraversingWithoutAwait == pc = "running" /\ stack # <<>>
\* The loop of _execute_connected_nodes runs on: every handler awaited so
\* far has completed.
Traversing == pc = "running" /\ awaiting = <<>> /\ stack # <<>>
NextConnection == Head(Top.todo)
\* A loop that ends at the connection it has taken (break for continue).
AdvanceLeavingLoop == [stack EXCEPT ![Len(stack)].todo = <<>>]
\* The for loop moves on to its next connection.
Advance == [stack EXCEPT ![Len(stack)].todo = Tail(@)]

\* "Skipping - already executed"
SkipExecuted ==
    /\ Traversing /\ Top.todo # <<>>
    /\ AlreadyExecuted(NextConnection.targetNodeId, executed_nodes)
    /\ stack' = Advance
    /\ processed' = Append(processed, NextConnection)
    /\ UNCHANGED <<outside_vars, registry_vars, db_vars, clock, pc, call, raised, summary,
                   nodes_by_id, connections_data, execution_results,
                   executed_nodes, node_outputs, awaiting, exec_log, invoked,
                   contexts, via, behaviours, reg_call, port_call>>

\* "Target node not found in nodes data"
SkipMissing ==
    /\ Traversing /\ Top.todo # <<>>
    /\ ~AlreadyExecuted(NextConnection.targetNodeId, executed_nodes)
    /\ NextConnection.targetNodeId \notin DOMAIN nodes_by_id
    /\ stack' = Advance
    /\ processed' = Append(processed, NextConnection)
    /\ UNCHANGED <<outside_vars, registry_vars, db_vars, clock, pc, call, raised, summary,
                   nodes_by_id, connections_data, execution_results,
                   executed_nodes, node_outputs, awaiting, exec_log, invoked,
                   contexts, via, behaviours, reg_call, port_call>>

\* The target is executed with the inputs mapped from this connection.
ExecuteTarget ==
    /\ Traversing /\ Top.todo # <<>>
    /\ ~AlreadyExecuted(NextConnection.targetNodeId, executed_nodes)
    /\ NextConnection.targetNodeId \in DOMAIN nodes_by_id
    /\ stack' = Advance
    /\ BeginNode(NextConnection.targetNodeId, nodes_by_id,
                 PrepareTargetInputs(Top.node, NextConnection.sourcePortId,
                                     NextConnection.targetPortId, node_outputs),
                 <<NextConnection>>)
    /\ processed' = Append(processed, NextConnection)
    /\ UNCHANGED <<outside_vars, registry_vars, db_vars, clock, pc, call, raised, summary,
                   nodes_by_id, connections_data, execution_results,
                   executed_nodes, node_outputs, behaviours, reg_call,
                   port_call>>

\* The loop of a recursive _execute_connected_nodes call is exhausted.
ReturnToCaller ==
    /\ Traversing /\ Top.todo = <<>> /\ Len(stack) > 1
    /\ stack' = SubSeq(stack, 1, Len(stack) - 1)
    /\ UNCHANGED <<outside_vars, registry_vars, db_vars, clock, pc, call, raised, summary,
                   nodes_by_id, connections_data, execution_results,
                   executed_nodes, node_outputs, awaiting, exec_log, invoked,
                   contexts, via, processed, behaviours, reg_call, port_call>>

\* A summary that leaves the trigger out of the count.
FlowSummaryDownstreamCount(flow_id, flow, trigger, results) ==
    [flow_id |-> flow_id, flow_name |-> flow.name,
     trigger_node_id |-> trigger, execution_results |-> results,
     total_nodes_executed |-> Cardinality(DOMAIN results \ {trigger})]

\* The trigger's loop is exhausted: execute_flow returns its summary.
FlowSummary(flow_id, flow, trigger, results) ==
    [flow_id |-> flow_id, flow_name |-> flow.name,
     trigger_node_id |-> trigger, execution_results |-> results,
     total_nodes_executed |-> Cardinality(DOMAIN results)]

ReturnSummary ==
    /\ Traversing /\ Top.todo = <<>> /\ Len(stack) = 1
    /\ stack' = <<>>
    /\ pc' = "done"
    /\ summary' = FlowSummary(call[1].flow_id, db_flows[call[1].flow_id],
                              summary.trigger_node_id, execution_results)
    /\ UNCHANGED <<outside_vars, registry_vars, db_vars, clock, call, raised,
                   nodes_by_id, connections_data, execution_results,
                   executed_nodes, node_outputs, awaiting, exec_log, invoked,
                   contexts, via, processed, behaviours, reg_call, port_call>>

\* No execute_flow call has been made.
IdleRun ==
    /\ pc = "idle"
    /\ call = NoCall
    /\ raised = <<>>
    /\ summary = EmptyMap
    /\ nodes_by_id = EmptyMap
    /\ connections_data = <<>>
    /\ execution_results = EmptyMap
    /\ executed_nodes = {}
    /\ node_outputs = EmptyMap
    /\ stack = <<>>
    /\ awaiting = <<>>
    /\ exec_log = <<>>
    /\ invoked = <<>>
    /\ contexts = EmptyMap
    /\ via = EmptyMap
    /\ processed = <<>>
    /\ behaviours = EmptyMap

RunIds == {1, 2}

\* The locals of one execute_flow call before it starts.
IdleRunState ==
    [pc |-> "idle", trigger_inputs |-> EmptyMap, nodes_by_id |-> EmptyMap,
     connections_data |-> <<>>, execution_results |-> EmptyMap,
     executed_nodes |-> {}, node_outputs |-> EmptyMap, stack |-> <<>>,
     awaiting |-> <<>>, exec_log |-> <<>>, contexts |-> EmptyMap,
     summary |-> EmptyMap]

\* Tasks calling is_rate_limited on the one key.
LimiterCallers == {1, 2}
\* A task between calls; it calls with the limit of its endpoint.
IdleLimiter(max_attempts, window_seconds) ==
    [pc |-> "idle", max_attempts |-> max_attempts,
     window_seconds |-> window_seconds, current_data |-> <<>>]

\* Two flows of two users, never saved, and empty graph tables. version is
\* (flow_data or {}).get("version", 0); saves counts the saves committed.
EmptyTables ==
    [flows |-> [f \in FlowIds |->
                  [id |-> f, user_id |-> IF f = 1 THEN "u1" ELSE "u2",
                   name |-> "flow", version |-> 0, saves |-> 0]],
     nodes |-> {}, connections |-> {}, foreign_keys |-> FALSE]
SaveIdle == tables = EmptyTables /\ save_call = NoCall

\* The registrations of start-up, built-in type first.
StartupLog == <<StartupNodeTypes[TriggerType], StartupNodeTypes[ProcessorType]>>

\* The other components are at rest.
OutsideIdle ==
    /\ runs = [r \in RunIds |-> IdleRunState]
    /\ types_log = StartupLog
    /\ type_call = NoCall
    /\ now = 0
    /\ redis_key = <<>>
    /\ limiter = [c \in LimiterCallers |-> IdleLimiter(1, 1)]
    /\ limit_log = <<>>
    /\ SaveIdle

StoredNodes(ty) == [n \in NodeIds |-> NodeData(n, ty[n], EmptyMap)]

Init ==
    /\ node_types = StartupNodeTypes
    /\ execution_handlers = StartupHandlers
    /\ db_flows = StoredFlows
    /\ db_nodes \in {StoredNodes(ty) : ty \in Typings}
    /\ db_connections \in ConnSeqs
    /\ clock = 0
    /\ IdleRun
    /\ OutsideIdle
    /\ reg_call = NoCall
    /\ port_call = NoCall

Next ==
    \/ \E f \in FlowIds, u \in UserIds, ti \in TriggerInputs : ExecuteFlow(f, u, ti)
    \/ \E beh \in FlowBehaviours(IF awaiting = <<>> THEN None ELSE awaiting[1].node) :
          NodeCompletes(beh)
    \/ SkipExecuted
    \/ SkipMissing
    \/ ExecuteTarget
    \/ ReturnToCaller
    \/ ReturnSummary

Spec == Init /\ [][Next]_vars

(* ------------------- runs over all port assignments ------------------- *)
\* One trigger feeding two processors, the first feeding the second, each
\* connection on any pair of ports, and a connection to a foreign node.
RoutingConnections ==
    {Connection(e[1], e[2], sp, tp) :
        e \in {<<"n1", "n2">>, <<"n1", "n3">>, <<"n2", "n3">>},
        sp \in SourcePorts, tp \in TargetPorts}
    \cup {Connection("n2", ForeignId, "a", "x")}

InitRouting ==
    /\ node_types = StartupNodeTypes
    /\ execution_handlers = StartupHandlers
    /\ db_flows = StoredFlows
    /\ db_nodes = StoredNodes([n \in NodeIds |->
                      IF n = "n1" THEN TriggerType ELSE ProcessorType])
    /\ db_connections \in ConnSeqsOver(RoutingConnections)
    /\ clock = 0
    /\ IdleRun
    /\ OutsideIdle
    /\ reg_call = NoCall
    /\ port_call = NoCall

SpecRouting == InitRouting /\ [][Next]_vars

(* ------------------ NodeRegistry.execute_node alone ------------------- *)
Timestamps == {NoTime} \cup (0..MaxClock)

\* Result objects a handler can return: any status with any outputs, error
\* text and timing fields, set or left None.
HandlerResults ==
    {NodeExecutionResult(o, st, e, ms, sa, ca) :
        o \in {EmptyMap, OutputsOf("n1", {"a"})},
        st \in {"success", "error"},
        e \in {None, "failed"},
        ms \in {NoTime, 0, 7},
        sa \in Timestamps,
        ca \in Timestamps}

RegistryBehaviours ==
    {Returns(r, d) : r \in HandlerResults, d \in {0, 1}}
    \cup {Raises(m, d) : m \in ExceptionMessages, d \in {0, 1}}

\* The instant at which execute_node returns.
ReturnInstant(beh, t0, gap) ==
    IF beh.kind = "return" THEN t0 + beh.dur ELSE t0 + beh.dur + gap

FixedFlow ==
    /\ db_flows = StoredFlows
    /\ db_nodes = StoredNodes([n \in NodeIds |->
                      IF n = "n1" THEN TriggerType
                      ELSE IF n = "n2" THEN ProcessorType ELSE GhostType])
    /\ db_connections = <<>>

InitRegistry ==
    /\ node_types = StartupNodeTypes
    /\ execution_handlers = StartupHandlers
    /\ FixedFlow
    /\ clock \in 0..MaxClock
    /\ IdleRun
    /\ OutsideIdle
    /\ reg_call \in {<<[node_type_id |-> t, beh |-> b, gap |-> g, out |-> <<>>]>> :
                        t \in TypeIds, b \in RegistryBehaviours, g \in {0, 1}}
    /\ port_call = NoCall

\* One call of node_registry.execute_node, as the node API makes it.
RegistryExecuteNode ==
    /\ reg_call # NoCall
    /\ reg_call[1].out = <<>>
    /\ LET c == reg_call[1] IN
       /\ reg_call' = <<[c EXCEPT !.out =
              <<[t0 |-> clock,
                 res |-> ExecuteNode(execution_handlers, c.node_type_id,
                                     c.beh, clock, c.gap)]>>]>>
       /\ clock' = IF c.node_type_id \in execution_handlers
                   THEN ReturnInstant(c.beh, clock, c.gap) ELSE clock
    /\ UNCHANGED <<outside_vars, registry_vars, db_vars, run_vars, port_call>>

NextRegistry == RegistryExecuteNode

SpecRegistry == InitRegistry /\ [][NextRegistry]_vars

(* --------------------- _prepare_target_inputs alone ------------------- *)
\* node_outputs maps: some executed nodes, each with outputs on a subset of
\* its ports.
OutputMaps ==
    UNION {[S -> {OutputsOf("n", ps) : ps \in SUBSET SourcePorts}] :
              S \in SUBSET NodeIds}

\* The outputs stored for node n carry n in their values.
Stamp(outs) == [n \in DOMAIN outs |-> OutputsOf(n, DOMAIN outs[n])]

InitPorts ==
    /\ node_types = StartupNodeTypes
    /\ execution_handlers = StartupHandlers
    /\ FixedFlow
    /\ clock = 0
    /\ IdleRun
    /\ OutsideIdle
    /\ reg_call = NoCall
    /\ port_call \in {<<[source_node_id |-> s, source_port_id |-> sp,
                          target_port_id |-> tp, node_outputs |-> Stamp(om),
                          out |-> <<>>]>> :
                         s \in NodeIds, sp \in SourcePorts \cup {"missing"},
                         tp \in TargetPorts \cup {"a"}, om \in OutputMaps}

PrepareCall ==
    /\ port_call # NoCall
    /\ port_call[1].out = <<>>
    /\ LET c == port_call[1] IN
       port_call' = <<[c EXCEPT !.out =
           <<PrepareTargetInputs(c.source_node_id, c.source_port_id,
                                 c.target_port_id, c.node_outputs)>>]>>
    /\ UNCHANGED <<outside_vars, registry_vars, db_vars, clock, run_vars, reg_call>>

NextPorts == PrepareCall

SpecPorts == InitPorts /\ [][NextPorts]_vars

(* ----------------- several execute_flow calls at once ----------------- *)
\* Each request builds its own FlowExecutor (create_flow_executor) and the
\* run's dictionaries are locals of _execute_flow_modular; a call gives up
\* control only while a handler is awaited.  Values carry the run that
\* produced them.
RunVal(r, n, p) == [run |-> r, node |-> n, port |-> p]
RunTriggerInputs(r) == [user_input |-> RunVal(r, "caller", "user_input")]
RunBehaviours(r, n) ==
    {Returns(NodeExecutionResult([p \in {"a"} |-> RunVal(r, n, p)], "success",
                                 None, NoTime, NoTime, NoTime), 0),
     Raises("boom", 0)}

\* The flows the concurrent calls run on: a diamond, and a chain with a
\* connection back to the trigger and one to a foreign node.
ConcurrentFlows ==
    {<<Connection("n1", "n2", "a", "x"), Connection("n1", "n3", "a", "x"),
       Connection("n2", "n3", "a", "y")>>,
     <<Connection("n1", "n2", "a", "x"), Connection("n2", ForeignId, "a", "x"),
       Connection("n2", "n1", "a", "x"), Connection("n2", "n3", "b", "y")>>}

\* executed_nodes as run r sees it.
VisitedShared(rs, r) == UNION {rs[q].executed_nodes : q \in DOMAIN rs}
VisitedOf(rs, r) == rs[r].executed_nodes

\* Entering _execute_node_modular in a run with locals st.
RunBegin(st, n, ctx) ==
    [st EXCEPT
       !.awaiting = <<[node |-> n, context |-> FinalContext(st.nodes_by_id[n], ctx)]>>,
       !.exec_log = Append(@, n),
       !.contexts = MapUpdate(@, [k \in {n} |-> FinalContext(st.nodes_by_id[n], ctx)])]

RunUnchanged ==
    UNCHANGED <<registry_vars, db_vars, clock, run_vars, reg_call, port_call,
                register_vars, limiter_vars, save_vars>>

RunExecuteFlow(r) ==
    /\ runs[r].pc = "idle"
    /\ LET flow == GetFlow(db_flows, 1, "u1")
           trig == ValidateTrigger(FindTriggerNodes(db_nodes, node_types))
       IN
       runs' = [runs EXCEPT ![r] =
           IF flow.raised \/ trig.raised
           THEN [@ EXCEPT !.pc = "failed"]
           ELSE RunBegin([@ EXCEPT !.pc = "running",
                                   !.trigger_inputs = RunTriggerInputs(r),
                                   !.nodes_by_id = db_nodes,
                                   !.connections_data = db_connections,
                                   !.summary = [trigger_node_id |-> trig.value]],
                         trig.value, RunTriggerInputs(r))]
    /\ RunUnchanged

RunNodeCompletes(r, beh) ==
    /\ runs[r].pc = "running"
    /\ runs[r].awaiting # <<>>
    /\ LET st == runs[r]
           n == st.awaiting[1].node
           result == ExecuteNodeModular(execution_handlers, st.nodes_by_id[n],
                                        beh, clock, 0)
       IN
       runs' = [runs EXCEPT ![r] =
           [st EXCEPT
              !.execution_results = MapUpdate(@, [k \in {n} |-> result]),
              !.executed_nodes = @ \cup {n},
              !.node_outputs = MapUpdate(@, [k \in {n} |-> result.outputs]),
              !.stack = Append(@, Frame(n, OutgoingConnections(st.connections_data, n))),
              !.awaiting = <<>>]]
    /\ RunUnchanged

RunTop(r) == runs[r].stack[Len(runs[r].stack)]
RunTraversing(r) ==
    runs[r].pc = "running" /\ runs[r].awaiting = <<>> /\ runs[r].stack # <<>>
RunNextConnection(r) == Head(RunTop(r).todo)
RunAdvance(st) == [st EXCEPT !.stack[Len(st.stack)].todo = Tail(@)]

RunSkipExecuted(r) ==
    /\ RunTraversing(r) /\ RunTop(r).todo # <<>>
    /\ AlreadyExecuted(RunNextConnection(r).targetNodeId, VisitedOf(runs, r))
    /\ runs' = [runs EXCEPT ![r] = RunAdvance(@)]
    /\ RunUnchanged

RunSkipMissing(r) ==
    /\ RunTraversing(r) /\ RunTop(r).todo # <<>>
    /\ ~AlreadyExecuted(RunNextConnection(r).targetNodeId, VisitedOf(runs, r))
    /\ RunNextConnection(r).targetNodeId \notin DOMAIN runs[r].nodes_by_id
    /\ runs' = [runs EXCEPT ![r] = RunAdvance(@)]
    /\ RunUnchanged

RunExecuteTarget(r) ==
    /\ RunTraversing(r) /\ RunTop(r).todo # <<>>
    /\ ~AlreadyExecuted(RunNextConnection(r).targetNodeId, VisitedOf(runs, r))
    /\ RunNextConnection(r).targetNodeId \in DOMAIN runs[r].nodes_by_id
    /\ LET c == RunNextConnection(r) IN
       runs' = [runs EXCEPT ![r] =
           RunBegin(RunAdvance(@), c.targetNodeId,
                    PrepareTargetInputs(RunTop(r).node, c.sourcePortId,
                                        c.targetPortId, runs[r].node_outputs))]
    /\ RunUnchanged

RunReturnToCaller(r) ==
    /\ RunTraversing(r) /\ RunTop(r).todo = <<>> /\ Len(runs[r].stack) > 1
    /\ runs' = [runs EXCEPT ![r].stack = SubSeq(@, 1, Len(@) - 1)]
    /\ RunUnchanged

RunReturnSummary(r) ==
    /\ RunTraversing(r) /\ RunTop(r).todo = <<>> /\ Len(runs[r].stack) = 1
    /\ runs' = [runs EXCEPT ![r] =
           [@ EXCEPT !.stack = <<>>, !.pc = "done",
                     !.summary = FlowSummary(1, db_flows[1], @.trigger_node_id,
                                             runs[r].execution_results)]]
    /\ RunUnchanged

InitConcurrent ==
    /\ node_types = StartupNodeTypes
    /\ execution_handlers = StartupHandlers
    /\ db_flows = StoredFlows
    /\ db_nodes = StoredNodes([n \in NodeIds |->
                      IF n = "n1" THEN TriggerType ELSE ProcessorType])
    /\ db_connections \in ConcurrentFlows
    /\ clock = 0
    /\ IdleRun
    /\ OutsideIdle
    /\ reg_call = NoCall
    /\ port_call = NoCall

NextConcurrent ==
    \E r \in RunIds :
        \/ RunExecuteFlow(r)
        \/ \E beh \in RunBehaviours(r, IF runs[r].awaiting = <<>> THEN None
                                        ELSE runs[r].awaiting[1].node) :
              RunNodeCompletes(r, beh)
        \/ RunSkipExecuted(r)
        \/ RunSkipMissing(r)
        \/ RunExecuteTarget(r)
        \/ RunReturnToCaller(r)
        \/ RunReturnSummary(r)

SpecConcurrent == InitConcurrent /\ [][NextConcurrent]_vars

(* ------------------- registering and looking up types ----------------- *)
Categories == {"trigger", "processor", "action"}
NodeType(id, category) == [id |-> id, category |-> category]
Descriptors == {NodeType(t, c) : t \in TypeIds, c \in Categories}

\* A registry that keeps the first descriptor registered under an id.
RegisteredKeepFirst(types, node_type) ==
    IF node_type.id \in DOMAIN types THEN types
    ELSE MapUpdate(types, [k \in {node_type.id} |-> node_type])

\* self._node_types after register_node_type(node_type)
Registered(types, node_type) ==
    MapUpdate(types, [k \in {node_type.id} |-> node_type])

RegisterUnchanged ==
    UNCHANGED <<execution_handlers, db_vars, clock, run_vars, reg_call,
                port_call, runs, limiter_vars, save_vars>>

\* NodeRegistry.register_node_type
RegisterNodeType(node_type) ==
    /\ Len(types_log) < Len(StartupLog) + MaxRegs
    /\ node_types' = Registered(node_types, node_type)
    /\ types_log' = Append(types_log, node_type)
    /\ UNCHANGED type_call
    /\ RegisterUnchanged

\* A get_node_type call; at is the number of registrations made before it.
LookupNodeType(id) ==
    /\ type_call' = <<[id |-> id, at |-> Len(types_log),
                       out |-> GetNodeType(node_types, id)]>>
    /\ UNCHANGED <<node_types, types_log>>
    /\ RegisterUnchanged

InitRegister ==
    /\ node_types = StartupNodeTypes
    /\ execution_handlers = StartupHandlers
    /\ FixedFlow
    /\ clock = 0
    /\ IdleRun
    /\ OutsideIdle
    /\ reg_call = NoCall
    /\ port_call = NoCall

NextRegister ==
    \/ \E nt \in Descriptors : RegisterNodeType(nt)
    \/ \E id \in TypeIds : LookupNodeType(id)

SpecRegister == InitRegister /\ [][NextRegister]_vars

(* --------------------------- rate limiter ----------------------------- *)
\* Redis GET: the value, or nothing once the entry has expired.
RedisGet(store, t) ==
    IF store = <<>> \/ store[1].expires_at <= t THEN <<>> ELSE <<store[1].data>>

\* Redis SETEX key ttl value: a ttl that is not positive is refused.
RedisSetex(t, ttl, data) ==
    IF ttl <= 0
    THEN Propagated("ResponseError", "invalid expire time in setex")
    ELSE Returned(<<[data |-> data, expires_at |-> t + ttl * TicksPerSecond]>>)

AttemptData(attempts, first_attempt, last_attempt) ==
    [attempts |-> attempts, first_attempt |-> first_attempt,
     last_attempt |-> last_attempt]

\* int(x) of a time span given in ticks: whole seconds, towards zero.
IntSeconds(ticks) ==
    IF ticks >= 0 THEN ticks \div TicksPerSecond
    ELSE 0 - ((0 - ticks) \div TicksPerSecond)

\* A limiter that never takes a window to have expired.
WindowExpiredNever(current_time, first_attempt, window_seconds) == FALSE

\* "Check if window has expired"
WindowExpired(current_time, first_attempt, window_seconds) ==
    current_time - first_attempt > window_seconds * TicksPerSecond

\* An answer that blocks.
FailClosed(max_attempts) ==
    [blocked |-> TRUE, attempts |-> 1, remaining_time |-> 1]

\* The fail-open answer of the except branch (also the first-attempt answer).
FailOpen(max_attempts) ==
    [blocked |-> FALSE, attempts |-> 1, remaining |-> max_attempts - 1]

\* is_rate_limited between the GET and the SETEX: the entry to write, its
\* ttl and the answer to return if the write succeeds.
Decide(current_data, current_time, max_attempts, window_seconds) ==
    IF current_data = <<>>
       \/ WindowExpired(current_time, current_data[1].first_attempt, window_seconds)
    THEN [ttl |-> window_seconds,
          data |-> AttemptData(1, current_time, current_time),
          result |-> FailOpen(max_attempts)]
    ELSE LET attempts == current_data[1].attempts + 1
             left == window_seconds * TicksPerSecond
                     - (current_time - current_data[1].first_attempt)
             data == AttemptData(attempts, current_data[1].first_attempt,
                                 current_time)
         IN
         IF attempts > max_attempts
         THEN [ttl |-> IntSeconds(left), data |-> data,
               result |-> [blocked |-> TRUE, attempts |-> attempts,
                           remaining_time |-> IntSeconds(left)]]
         ELSE [ttl |-> IntSeconds(left), data |-> data,
               result |-> [blocked |-> FALSE, attempts |-> attempts,
                           remaining |-> max_attempts - attempts]]

\* check_email_rate_limit on the outcome of its is_rate_limited call.
CheckEmailRateLimit(outcome) ==
    IF outcome.raised THEN Returned(None)
    ELSE IF outcome.value.blocked
         THEN Propagated("HTTPException", "429 Too many attempts")
         ELSE Returned(None)

LimiterUnchanged ==
    UNCHANGED <<registry_vars, db_vars, clock, run_vars, reg_call, port_call,
                runs, register_vars, save_vars>>

\* A completed call: when it read the clock, what it saw and wrote, whether
\* Redis failed, what it returned, and what check_email_rate_limit makes of
\* the answer.
LoggedCall(c, at, seen, wrote, fault, result) ==
    [at |-> at, max_attempts |-> limiter[c].max_attempts,
     window_seconds |-> limiter[c].window_seconds, seen |-> seen,
     wrote |-> wrote, fault |-> fault, result |-> result,
     email |-> CheckEmailRateLimit(Returned(result))]

\* is_rate_limited up to the return of redis_client.get
LimiterGet(c, fault) ==
    /\ limiter[c].pc = "idle"
    /\ Len(limit_log) + Cardinality({d \in LimiterCallers : limiter[d].pc = "read"})
          < MaxCalls
    /\ IF fault
       THEN /\ limit_log' = Append(limit_log,
                  LoggedCall(c, now, <<>>, <<>>, TRUE,
                             FailOpen(limiter[c].max_attempts)))
            /\ UNCHANGED limiter
       ELSE /\ limiter' = [limiter EXCEPT ![c].pc = "read",
                                           ![c].current_data = RedisGet(redis_key, now)]
            /\ UNCHANGED limit_log
    /\ UNCHANGED <<now, redis_key>>
    /\ LimiterUnchanged

\* is_rate_limited from the clock read to its return.
LimiterSetex(c, fault) ==
    /\ limiter[c].pc = "read"
    /\ LET l == limiter[c]
           d == Decide(l.current_data, now, l.max_attempts, l.window_seconds)
           w == IF fault THEN Propagated("ConnectionError", "redis down")
                ELSE RedisSetex(now, d.ttl, d.data)
       IN
       /\ redis_key' = IF w.raised THEN redis_key ELSE w.value
       /\ limit_log' = Append(limit_log,
             LoggedCall(c, now, l.current_data,
                        IF w.raised THEN <<>> ELSE w.value, fault,
                        IF w.raised THEN FailOpen(l.max_attempts) ELSE d.result))
    /\ limiter' = [limiter EXCEPT ![c].pc = "idle", ![c].current_data = <<>>]
    /\ UNCHANGED now
    /\ LimiterUnchanged

\* Time passes.
Tick ==
    /\ now < MaxNow
    /\ now' = now + 1
    /\ UNCHANGED <<redis_key, limiter, limit_log>>
    /\ LimiterUnchanged

LimitArgs == {1, 2}

InitLimiter ==
    /\ node_types = StartupNodeTypes
    /\ execution_handlers = StartupHandlers
    /\ FixedFlow
    /\ clock = 0
    /\ IdleRun
    /\ runs = [r \in RunIds |-> IdleRunState]
    /\ types_log = StartupLog
    /\ type_call = NoCall
    /\ now = 0
    /\ redis_key = <<>>
    /\ limiter \in {[c \in LimiterCallers |-> IdleLimiter(m, w)] :
                       m \in LimitArgs, w \in LimitArgs}
    /\ limit_log = <<>>
    /\ SaveIdle
    /\ reg_call = NoCall
    /\ port_call = NoCall

\* Calls made one after another by one task.
NextLimiter ==
    \/ \E f \in BOOLEAN : LimiterGet(1, f)
    \/ \E f \in BOOLEAN : LimiterSetex(1, f)
    \/ Tick

SpecLimiter == InitLimiter /\ [][NextLimiter]_vars

\* Calls made by several tasks of the event loop: a task gives up control
\* at each await of the Redis client, so the GET and SETEX steps of the
\* calls interleave.
NextLimiterConcurrent ==
    \/ \E c \in LimiterCallers, f \in BOOLEAN : LimiterGet(c, f)
    \/ \E c \in LimiterCallers, f \in BOOLEAN : LimiterSetex(c, f)
    \/ Tick

SpecLimiterConcurrent == InitLimiter /\ [][NextLimiterConcurrent]_vars

(* ----------------------------- save_flow ------------------------------ *)
\* Payload entries: NodeSchema and EdgeSchema objects of the front-end.
NodeSchemas == {[id |-> n, type_id |-> TriggerType] : n \in {"n1", "n2"}}
EdgeSchemas ==
    {[id |-> "e1", source_node_id |-> "n1", target_node_id |-> "n2"],
     [id |-> "e2", source_node_id |-> "n1", target_node_id |-> "n1"]}
ListsOf(S) == UNION {[1..n -> S] : n \in 0..MaxPayload}
Payloads ==
    {p \in [flow_name : {None, "renamed"}, nodes : ListsOf(NodeSchemas),
            edges : ListsOf(EdgeSchemas)] :
        Len(p.nodes) + Len(p.edges) <= MaxPayload}

\* The tables after create_flow made the flows: flow_data is the client's,
\* with or without a version in it.
CreatedTables(created_version, foreign_keys) ==
    [EmptyTables EXCEPT
        !.flows = [f \in FlowIds |->
                     [EmptyTables.flows[f] EXCEPT !.version = created_version[f]]],
        !.foreign_keys = foreign_keys]

\* The row a payload entry becomes in the tables.
Row(entry, flow_id) == [flow_id |-> flow_id, row |-> entry]

\* A save that leaves the stored rows of the flow in place.
AfterDeleteNothing(rows, flow_id) == rows

\* query(...).filter(flow_id == flow.id).delete()
AfterDelete(rows, flow_id) == {r \in rows : r.flow_id # flow_id}

\* bulk_save_objects: the primary key id is unique in the whole table.
PrimaryKeyClash(rows, entries) ==
    \/ \E i, j \in DOMAIN entries : i # j /\ entries[i].id = entries[j].id
    \/ \E i \in DOMAIN entries, r \in rows : r.row.id = entries[i].id

\* A connection row whose source or target is no node row: refused by a
\* database that enforces the foreign keys.
DanglingConnection(nodes, connections) ==
    \E c \in connections :
        \/ c.row.source_node_id \notin {n.row.id : n \in nodes}
        \/ c.row.target_node_id \notin {n.row.id : n \in nodes}

\* save_flow with the rows found in t; t.foreign_keys tells whether the
\* database enforces foreign keys.
SaveFlow(t, flow_id, user_id, payload) ==
    IF flow_id \notin DOMAIN t.flows \/ t.flows[flow_id].user_id # user_id
    THEN Propagated("HTTPException", "404 Flow not found")
    ELSE LET flow == t.flows[flow_id]
             new_version == flow.version + 1
             kept_nodes == AfterDelete(t.nodes, flow_id)
             kept_conns == AfterDelete(t.connections, flow_id)
             nodes == kept_nodes \cup
                      {Row(payload.nodes[i], flow_id) : i \in DOMAIN payload.nodes}
             conns == kept_conns \cup
                      {Row(payload.edges[i], flow_id) : i \in DOMAIN payload.edges}
         IN
         IF \/ PrimaryKeyClash(kept_nodes, payload.nodes)
            \/ PrimaryKeyClash(kept_conns, payload.edges)
            \/ t.foreign_keys /\ DanglingConnection(nodes, conns)
         THEN Propagated("HTTPException", "500 Failed to save flow")
         ELSE Returned(
                [version |-> new_version,
                 tables |->
                   [t EXCEPT !.flows = [t.flows EXCEPT
                                 ![flow_id].version = new_version,
                                 ![flow_id].saves = @ + 1,
                                 ![flow_id].name =
                                     IF payload.flow_name = None THEN @
                                     ELSE payload.flow_name],
                      !.nodes = nodes, !.connections = conns]])

SaveUnchanged ==
    UNCHANGED <<registry_vars, db_vars, clock, run_vars, reg_call, port_call,
                runs, register_vars, limiter_vars>>

\* One POST /flows/{flow_id}/save request; a failed request rolls back.
SaveFlowRequest(flow_id, user_id, payload) ==
    /\ \A f \in DOMAIN tables.flows : tables.flows[f].version < MaxVersion
    /\ LET out == SaveFlow(tables, flow_id, user_id, payload) IN
       /\ tables' = IF out.raised THEN tables ELSE out.value.tables
       /\ save_call' = <<[flow_id |-> flow_id, user_id |-> user_id,
                          payload |-> payload, before |-> tables,
                          out |-> IF out.raised THEN out
                                  ELSE Returned([version |-> out.value.version])]>>
    /\ SaveUnchanged

InitSave ==
    /\ node_types = StartupNodeTypes
    /\ execution_handlers = StartupHandlers
    /\ FixedFlow
    /\ clock = 0
    /\ IdleRun
    /\ runs = [r \in RunIds |-> IdleRunState]
    /\ types_log = StartupLog
    /\ type_call = NoCall
    /\ now = 0
    /\ redis_key = <<>>
    /\ limiter = [c \in LimiterCallers |-> IdleLimiter(1, 1)]
    /\ limit_log = <<>>
    /\ tables \in {CreatedTables(v, fk) :
                      v \in [FlowIds -> {0, 1}], fk \in BOOLEAN}
    /\ save_call = NoCall
    /\ reg_call = NoCall
    /\ port_call = NoCall

NextSave ==
    \E f \in FlowIds, u \in UserIds, p \in Payloads : SaveFlowRequest(f, u, p)

SpecSave == InitSave /\ [][NextSave]_vars

(* ---------------- runs over stored settings and inputs ---------------- *)
\* A value stored under key k of the settings of node n.
Setting(n, k) == [node |-> n, setting |-> k]

\* data.settings of a node instance: absent or empty, a key of its own, a
\* key a caller also supplies, or the key 'inputs' of the port mapping.
SettingsMaps(n) ==
    {EmptyMap} \cup
    {[k \in {key} |-> Setting(n, k)] : key \in {"model", "user_input", "inputs"}}

\* trigger_inputs of the callers: none, the chat text, or the chat text with
\* a session id.
ContextTriggerInputs ==
    {EmptyMap,
     [user_input |-> Val("caller", "user_input")],
     [user_input |-> Val("caller", "user_input"),
      session_id |-> Val("caller", "session_id")]}

\* The trigger feeds a processor and a node that is not stored; the
\* processor points back at the trigger.
ContextConnections ==
    <<Connection("n1", "n2", "a", "x"), Connection("n1", ForeignId, "a", "x"),
      Connection("n2", "n1", "a", "x")>>

InitContext ==
    /\ node_types = StartupNodeTypes
    /\ execution_handlers = StartupHandlers
    /\ db_flows = StoredFlows
    /\ db_nodes \in {[n \in {"n1", "n2"} |->
                        NodeData(n, IF n = "n1" THEN TriggerType ELSE ProcessorType,
                                 st[n])] :
                     st \in [{"n1", "n2"} -> UNION {SettingsMaps(n) : n \in {"n1", "n2"}}]}
    /\ \A n \in DOMAIN db_nodes : db_nodes[n].settings \in SettingsMaps(n)
    /\ db_connections = ContextConnections
    /\ clock = 0
    /\ IdleRun
    /\ OutsideIdle
    /\ reg_call = NoCall
    /\ port_call = NoCall

NextContext ==
    \/ \E f \in FlowIds, u \in UserIds, ti \in ContextTriggerInputs :
          ExecuteFlow(f, u, ti)
    \/ \E beh \in FlowBehaviours(IF awaiting = <<>> THEN None ELSE awaiting[1].node) :
          NodeCompletes(beh)
    \/ SkipExecuted
    \/ SkipMissing
    \/ ExecuteTarget
    \/ ReturnToCaller
    \/ ReturnSummary

SpecContext == InitContext /\ [][NextContext]_vars

(* --------------- runs over missing and unknown type ids --------------- *)
\* type_id of a node instance row: a registered type, an id no one
\* registered, or none at all (NULL or the empty string).
StoredTypeIds == TypeIds \cup {None, ""}

InitTriggers ==
    /\ node_types = StartupNodeTypes
    /\ execution_handlers = StartupHandlers
    /\ db_flows = StoredFlows
    /\ db_nodes \in {StoredNodes(ty) : ty \in [NodeIds -> StoredTypeIds]}
    /\ db_connections = ContextConnections
    /\ clock = 0
    /\ IdleRun
    /\ OutsideIdle
    /\ reg_call = NoCall
    /\ port_call = NoCall

SpecTriggers == InitTriggers /\ [][Next]_vars

(* ============================ properties ============================== *)
Range(s) == {s[i] : i \in DOMAIN s}
Count(s, x) == Cardinality({i \in DOMAIN s : s[i] = x})

\* The node instances of the stored flow whose registered type has category
\* Trigger.
TriggerNodes ==
    {n \in DOMAIN db_nodes :
        /\ db_nodes[n].typeId \in DOMAIN node_types
        /\ node_types[db_nodes[n].typeId].category = "trigger"}
TheTrigger == CHOOSE n \in TriggerNodes : TRUE

\* Connections between node instances of the flow, as edges.
NodeEdges ==
    {<<c.sourceNodeId, c.targetNodeId>> : c \in
        {c \in Range(db_connections) : c.targetNodeId \in DOMAIN db_nodes}}
Successors(S) == {e[2] : e \in {e \in NodeEdges : e[1] \in S}}
RECURSIVE Closure(_)
Closure(S) == IF Successors(S) \subseteq S THEN S ELSE Closure(S \cup Successors(S))
\* Nodes reachable from n along one or more connections.
Descendants(n) == Closure(Successors({n}))
HasCycle == \E n \in DOMAIN db_nodes : n \in Descendants(n)

\* The flow is missing or owned by another user.
BadCall ==
    /\ call # NoCall
    /\ \/ call[1].flow_id \notin DOMAIN db_flows
       \/ db_flows[call[1].flow_id].user_id # call[1].user_id

RECURSIVE FrameWork(_)
FrameWork(st) ==
    IF st = <<>> THEN 0 ELSE Len(Head(st).todo) + 1 + FrameWork(Tail(st))
\* Work left in a run: it bounds the number of steps still to come.
Variant ==
    (IF pc = "idle" THEN 1 ELSE 0)
    + (Len(db_connections) + 2)
        * (Cardinality(DOMAIN db_nodes \ Range(exec_log))
           + (IF awaiting # <<>> THEN 1 ELSE 0))
    + FrameWork(stack)

AtMostOnce ==
    \A n \in DOMAIN db_nodes : Count(exec_log, n) <= 1 /\ Count(invoked, n) <= 1

\* C1: on a flow graph with a cycle (a self-loop or a connection back to
\* the trigger included) execute_flow terminates: every step strictly
\* decreases the work left and a run in progress can always step; and no
\* node's executor is invoked more than once.
C1_CycleTerminates ==
    /\ [](HasCycle => AtMostOnce /\ (pc = "running" => ENABLED Next))
    /\ [][HasCycle => Variant' < Variant]_vars

\* A finished run over a self-loop and a connection back to the trigger.
C1_Witness ==
    /\ pc = "done"
    /\ \E c \in Range(db_connections) :
          /\ c.sourceNodeId \in executed_nodes \ {TheTrigger}
          /\ c.targetNodeId = c.sourceNodeId
    /\ \E c \in Range(db_connections) :
          /\ c.sourceNodeId \in executed_nodes \ {TheTrigger}
          /\ c.targetNodeId = TheTrigger

\* C2: after execute_flow returns on an acyclic graph with one trigger,
\* every node reachable from the trigger is a key of execution_results and
\* was executed exactly once, however many paths reach it.
C2_ReachableExactlyOnce ==
    (pc = "done" /\ ~HasCycle /\ Cardinality(TriggerNodes) = 1) =>
        \A n \in {TheTrigger} \cup Descendants(TheTrigger) :
            /\ n \in DOMAIN summary.execution_results
            /\ Count(exec_log, n) = 1
            /\ db_nodes[n].typeId \in execution_handlers => Count(invoked, n) = 1

\* A finished acyclic run in which a node has connections from two
\* executed nodes.
C2_Witness ==
    /\ pc = "done" /\ ~HasCycle
    /\ \E c1, c2 \in Range(db_connections) :
          /\ c1.targetNodeId = c2.targetNodeId
          /\ c1.targetNodeId \in executed_nodes
          /\ c1.sourceNodeId # c2.sourceNodeId
          /\ {c1.sourceNodeId, c2.sourceNodeId} \subseteq executed_nodes

\* C3: an execute_flow call on a flow that is missing, owned by someone
\* else, or has zero or several trigger nodes fails with FlowExecutionError
\* and no node has been executed.
C3_GraphLevelErrors ==
    (pc # "idle" /\ (BadCall \/ Cardinality(TriggerNodes) # 1)) =>
        /\ pc = "failed"
        /\ raised # <<>> /\ raised[1].exc = "FlowExecutionError"
        /\ exec_log = <<>> /\ invoked = <<>>
        /\ execution_results = EmptyMap /\ summary = EmptyMap

\* A call by the owner fails on a flow with two trigger nodes.
C3_Witness ==
    pc = "failed" /\ ~BadCall /\ Cardinality(TriggerNodes) > 1

\* C4: on a flow with exactly one trigger node, the trigger is the first
\* node executed and the returned execution_results has an entry under
\* the trigger's id.
C4_TriggerFirst ==
    Cardinality(TriggerNodes) = 1 =>
        /\ exec_log # <<>> => exec_log[1] = TheTrigger
        /\ invoked # <<>> => invoked[1] = TheTrigger
        /\ pc = "running" => exec_log # <<>>
        /\ pc = "done" =>
              /\ TheTrigger \in DOMAIN summary.execution_results
              /\ summary.trigger_node_id = TheTrigger

\* A finished run that executed a second node after the trigger.
C4_Witness ==
    /\ pc = "done" /\ Len(exec_log) >= 2
    /\ exec_log[1] = TheTrigger
    /\ TheTrigger \in DOMAIN summary.execution_results

\* The completed execute_node call of SpecRegistry.
RegDone == reg_call # NoCall /\ reg_call[1].out # <<>>
RegOut == reg_call[1].out[1].res

\* C5: for a registered type whose executor raises, execute_node propagates
\* nothing and returns a result with status error, a non-empty error
\* message and started_at <= completed_at.
C5_NeverPropagates ==
    (/\ RegDone
     /\ reg_call[1].node_type_id \in execution_handlers
     /\ reg_call[1].beh.kind = "raise") =>
        /\ ~RegOut.raised
        /\ RegOut.value.status = "error"
        /\ RegOut.value.error \notin {None, ""}
        /\ RegOut.value.started_at # NoTime
        /\ RegOut.value.started_at <= RegOut.value.completed_at

\* A completed call on a registered type whose executor raised an exception
\* with an empty message.
C5_Witness ==
    /\ RegDone
    /\ reg_call[1].node_type_id \in execution_handlers
    /\ reg_call[1].beh.kind = "raise"
    /\ reg_call[1].beh.msg = ""
    /\ ~RegOut.raised
    /\ RegOut.value.status = "error"

\* A node whose type id has no registered handler.
Unresolved(n) == db_nodes[n].typeId \notin execution_handlers

\* C6: once traversal has executed a node of an unresolved type,
\* execute_flow has failed with the registry's error and that node is the
\* last one the run touched.
C6_UnresolvedTypeIsFatal ==
    \A n \in executed_nodes :
        Unresolved(n) =>
            /\ pc = "failed"
            /\ raised # <<>> /\ raised[1].exc = "ValueError"
            /\ exec_log[Len(exec_log)] = n

\* What the code does with a node of an unresolved type: the registry's
\* not-found error is caught inside _execute_node_modular and stored as
\* that node's result (status error, the error text, no outputs); no
\* executor is invoked for the node, execute_flow does not fail, and the
\* returned summary holds the node and the targets of its outgoing
\* connections.
UnresolvedTypeRecorded ==
    \A n \in executed_nodes :
        Unresolved(n) =>
            /\ execution_results[n].status = "error"
            /\ execution_results[n].error = "No execution handler found"
            /\ execution_results[n].outputs = EmptyMap
            /\ Count(invoked, n) = 0
            /\ pc \in {"running", "done"} /\ raised = <<>>
            /\ pc = "done" =>
                  {n} \cup Successors({n}) \subseteq DOMAIN summary.execution_results

\* A finished run that reached a node through a connection leaving a node
\* of an unresolved type.
C6_Witness ==
    /\ pc = "done"
    /\ \E n \in executed_nodes, m \in executed_nodes :
          /\ Unresolved(n)
          /\ via[m] # <<>> /\ via[m][1].sourceNodeId = n

\* The handler of node n raised or returned a result with status error.
HandlerFailed(n) ==
    /\ n \in DOMAIN behaviours
    /\ IF behaviours[n].kind = "raise" THEN TRUE
       ELSE behaviours[n].result.status = "error"

\* What the port-mapping rule gives for connection c over the outputs outs
\* of its source.
MappedInputs(c, outs) ==
    IF c.sourcePortId \in DOMAIN outs
    THEN [p \in {c.targetPortId} |-> outs[c.sourcePortId]]
    ELSE outs

ProcessedInto(t) == SelectSeq(processed, LAMBDA c : c.targetNodeId = t)

RECURSIVE MergeMappings(_)
\* The per-connection mappings of a list of connections merged in order,
\* a later connection winning on a key collision.
MergeMappings(cs) ==
    IF cs = <<>> THEN EmptyMap
    ELSE MapUpdate(MergeMappings(SubSeq(cs, 1, Len(cs) - 1)),
                   MappedInputs(cs[Len(cs)],
                                node_outputs[cs[Len(cs)].sourceNodeId]))

PortDone == port_call # NoCall /\ port_call[1].out # <<>>
PortArgs == port_call[1]
PortInputs == port_call[1].out[1].inputs
SourceOutputs == PortArgs.node_outputs[PortArgs.source_node_id]

\* C9: when sourcePort is a key of the source's outputs, the input map is
\* the single entry targetPort -> outputs[sourcePort].
C9_PortMapping ==
    (/\ PortDone
     /\ PortArgs.source_node_id \in DOMAIN PortArgs.node_outputs
     /\ PortArgs.source_port_id \in DOMAIN SourceOutputs) =>
        /\ DOMAIN port_call[1].out[1] = {"inputs"}
        /\ DOMAIN PortInputs = {PortArgs.target_port_id}
        /\ PortInputs[PortArgs.target_port_id] =
              SourceOutputs[PortArgs.source_port_id]

\* A mapped call whose source had an output on a second port.
C9_Witness ==
    /\ PortDone
    /\ PortArgs.source_node_id \in DOMAIN PortArgs.node_outputs
    /\ PortArgs.source_port_id \in DOMAIN SourceOutputs
    /\ Cardinality(DOMAIN SourceOutputs) = 2
    /\ DOMAIN PortInputs = {PortArgs.target_port_id}

\* C10: when sourcePort is not a key of the source's outputs, the input map
\* is the source's whole outputs map, not keyed by the target port, and it
\* is empty when the source produced nothing.
C10_PortFallback ==
    /\ (/\ PortDone
        /\ PortArgs.source_node_id \in DOMAIN PortArgs.node_outputs
        /\ PortArgs.source_port_id \notin DOMAIN SourceOutputs) =>
           /\ DOMAIN port_call[1].out[1] = {"inputs"}
           /\ PortInputs = SourceOutputs
    /\ (/\ PortDone
        /\ PortArgs.source_node_id \notin DOMAIN PortArgs.node_outputs) =>
           PortInputs = EmptyMap

\* A fallback call whose source had produced outputs.
C10_Witness ==
    /\ PortDone
    /\ PortArgs.source_node_id \in DOMAIN PortArgs.node_outputs
    /\ PortArgs.source_port_id \notin DOMAIN SourceOutputs
    /\ SourceOutputs # EmptyMap
    /\ PortInputs = SourceOutputs
    /\ PortArgs.target_port_id \notin DOMAIN PortInputs

\* Position of node n in the order of execution.
ExecIndex(n) == CHOOSE i \in DOMAIN exec_log : exec_log[i] = n

\* The outputs the handler of node n returned in this run (none when it
\* raised).
Emitted(n) ==
    IF n \in DOMAIN behaviours /\ behaviours[n].kind = "return"
    THEN behaviours[n].result.outputs ELSE EmptyMap

C12_UnregisteredRaises ==
    (RegDone /\ reg_call[1].node_type_id \notin execution_handlers) =>
        /\ RegOut.raised
        /\ RegOut.exc = "ValueError"
        /\ RegOut.msg = "No execution handler found"
        /\ DOMAIN RegOut = {"raised", "exc", "msg"}
        /\ clock = reg_call[1].out[1].t0

\* A failed call on the unregistered type where an executor, had one been
\* awaited, would have taken time and returned a result.
C12_Witness ==
    /\ RegDone
    /\ reg_call[1].node_type_id = GhostType
    /\ reg_call[1].beh.kind = "return"
    /\ reg_call[1].beh.dur = 1
    /\ RegOut.raised

\* A result whose status and error agree and whose outputs are empty on
\* error; an error message is present when the field is not None.
Consistent(r) ==
    /\ (r.status = "error") <=> (r.error # None)
    /\ r.status = "error" => r.outputs = EmptyMap

OwnData(r) ==
    /\ \A n \in DOMAIN runs[r].node_outputs :
          \A p \in DOMAIN runs[r].node_outputs[n] :
              runs[r].node_outputs[n][p] = RunVal(r, n, p)
    /\ \A n \in DOMAIN runs[r].contexts :
          IF n = TheTrigger
          THEN runs[r].contexts[n] = RunTriggerInputs(r)
          ELSE \A k \in DOMAIN runs[r].contexts[n].inputs :
                  runs[r].contexts[n].inputs[k].run = r

\* C14: when two execute_flow calls on the same flow interleave, each
\* executes every node reachable from the trigger exactly once and returns
\* a result map holding exactly those nodes, and each holds only values of
\* its own run.
C14_RunsIndependent ==
    \A r \in RunIds :
        /\ \A n \in NodeIds : Count(runs[r].exec_log, n) <= 1
        /\ OwnData(r)
        /\ runs[r].pc # "failed"
        /\ runs[r].pc = "done" =>
              /\ DOMAIN runs[r].summary.execution_results =
                    {TheTrigger} \cup Descendants(TheTrigger)
              /\ \A n \in {TheTrigger} \cup Descendants(TheTrigger) :
                    Count(runs[r].exec_log, n) = 1

\* Both calls are suspended in a handler at the same time, at different
\* nodes, the first having executed a node the second has not reached.
C14_Witness ==
    /\ runs[1].pc = "running" /\ runs[1].awaiting # <<>>
    /\ runs[2].pc = "running" /\ runs[2].awaiting # <<>>
    /\ runs[1].awaiting[1].node = "n3"
    /\ runs[2].awaiting[1].node = "n2"
    /\ "n2" \in runs[1].executed_nodes
    /\ "n3" \notin runs[2].executed_nodes

\* The registrations under id among the first k made.
RegistrationsOf(id, k) ==
    SelectSeq(SubSeq(types_log, 1, k), LAMBDA nt : nt.id = id)

\* C15: get_node_type(id) returns the descriptor most recently registered
\* under id, and fails with the not-found ValueError if and only if no
\* descriptor was ever registered under id.
C15_LastRegistrationWins ==
    type_call # NoCall =>
        LET c == type_call[1]
            regs == RegistrationsOf(c.id, c.at)
        IN
        /\ c.out.raised <=> regs = <<>>
        /\ c.out.raised => c.out.exc = "ValueError"
        /\ ~c.out.raised => c.out.value = regs[Len(regs)]

\* A lookup of an id registered twice with different descriptors.
C15_Witness ==
    /\ type_call # NoCall
    /\ ~type_call[1].out.raised
    /\ LET regs == RegistrationsOf(type_call[1].id, type_call[1].at) IN
       /\ Len(regs) >= 2
       /\ regs[1] # regs[Len(regs)]
       /\ type_call[1].out.value = regs[Len(regs)]

\* C16: in every summary execute_flow returns, total_nodes_executed is the
\* number of node ids in execution_results (the nodes the run executed);
\* when the trigger has no outgoing connections it is 1 and the result map
\* holds the trigger alone.
C16_TotalMatchesResults ==
    pc = "done" =>
        /\ summary.total_nodes_executed =
              Cardinality({n \in NodeIds : n \in DOMAIN summary.execution_results})
        /\ summary.total_nodes_executed = Cardinality(Range(exec_log))
        /\ (\A c \in Range(db_connections) : c.sourceNodeId # TheTrigger) =>
              /\ summary.total_nodes_executed = 1
              /\ DOMAIN summary.execution_results = {TheTrigger}

\* A finished run on a flow whose other nodes are connected but whose
\* trigger has no outgoing connection.
C16_Witness ==
    /\ pc = "done"
    /\ db_connections # <<>>
    /\ \A c \in Range(db_connections) : c.sourceNodeId # TheTrigger
    /\ summary.total_nodes_executed = 1
    /\ DOMAIN summary.execution_results = {TheTrigger}

\* No Redis failure was injected into any logged call.
NoFaults == \A i \in DOMAIN limit_log : ~limit_log[i].fault

RECURSIVE WindowStart(_)
\* The instant the window holding the i-th logged call began: a call made
\* window_seconds or more after the start of the previous call's window
\* begins a new one.
WindowStart(i) ==
    IF i = 1 THEN limit_log[1].at
    ELSE IF limit_log[i].at - WindowStart(i - 1)
              < limit_log[i].window_seconds * TicksPerSecond
         THEN WindowStart(i - 1)
         ELSE limit_log[i].at

RECURSIVE CallNo(_)
\* The rank of the i-th logged call within its window.
CallNo(i) ==
    IF i = 1 THEN 1
    ELSE IF WindowStart(i) = WindowStart(i - 1) THEN CallNo(i - 1) + 1 ELSE 1

\* C17: with Redis working, call n of a window returns blocked=False with
\* attempts = n and remaining = max_attempts - n while n <= max_attempts,
\* and blocked=True with remaining_time > 0 for every later call of the
\* window.
C17_BlocksAfterMax ==
    NoFaults =>
        \A i \in DOMAIN limit_log :
            LET e == limit_log[i] IN
            IF CallNo(i) <= e.max_attempts
            THEN e.result = [blocked |-> FALSE, attempts |-> CallNo(i),
                             remaining |-> e.max_attempts - CallNo(i)]
            ELSE /\ e.result.blocked
                 /\ "remaining_time" \in DOMAIN e.result
                 /\ e.result.remaining_time > 0

\* With Redis working, a call beyond max_attempts made less than
\* window_seconds after the first call of its window was let through.
C17_Witness ==
    /\ NoFaults
    /\ \E i \in DOMAIN limit_log :
          /\ CallNo(i) > limit_log[i].max_attempts
          /\ limit_log[i].at - WindowStart(i)
                < limit_log[i].window_seconds * TicksPerSecond
          /\ ~limit_log[i].result.blocked

\* The i-th logged call read an entry whose first_attempt lay more than
\* window_seconds before the call's clock read.
SawExpiredWindow(i) ==
    /\ limit_log[i].seen # <<>>
    /\ limit_log[i].at - limit_log[i].seen[1].first_attempt
          > limit_log[i].window_seconds * TicksPerSecond

\* C18: a call that finds a stored first_attempt more than window_seconds
\* in the past resets the counter whatever the stored count: it returns
\* blocked=False with attempts = 1 and stores a window that starts at the
\* current time and lasts window_seconds.
C18_ExpiredWindowResets ==
    \A i \in DOMAIN limit_log :
        (SawExpiredWindow(i) /\ ~limit_log[i].fault) =>
            LET e == limit_log[i] IN
            /\ e.result = [blocked |-> FALSE, attempts |-> 1,
                           remaining |-> e.max_attempts - 1]
            /\ e.wrote = <<[data |-> AttemptData(1, e.at, e.at),
                            expires_at |-> e.at + e.window_seconds * TicksPerSecond]>>

\* A reset over a stored count of two attempts.
C18_Witness ==
    \E i \in DOMAIN limit_log :
        /\ SawExpiredWindow(i) /\ ~limit_log[i].fault
        /\ limit_log[i].seen[1].attempts >= 2
        /\ limit_log[i].result.attempts = 1
        /\ limit_log[i].wrote # <<>>

\* C19: a call in which a Redis operation fails raises nothing and returns
\* blocked=False with attempts = 1, and check_email_rate_limit lets the
\* request proceed on that answer and on a limiter that raises.
C19_FailsOpen ==
    /\ \A i \in DOMAIN limit_log :
          limit_log[i].fault =>
              /\ ~limit_log[i].result.blocked
              /\ limit_log[i].result.attempts = 1
              /\ limit_log[i].result.remaining = limit_log[i].max_attempts - 1
              /\ limit_log[i].wrote = <<>>
              /\ ~limit_log[i].email.raised
    /\ \A c \in LimiterCallers : limiter[c].pc \in {"idle", "read"}
    /\ ~CheckEmailRateLimit(Propagated("Exception", "Redis connection failed")).raised

\* The write failed in a call that had read a count already at the limit.
C19_Witness ==
    \E i \in DOMAIN limit_log :
        /\ limit_log[i].fault
        /\ limit_log[i].seen # <<>>
        /\ limit_log[i].seen[1].attempts >= limit_log[i].max_attempts
        /\ ~SawExpiredWindow(i)
        /\ ~limit_log[i].result.blocked
        /\ ~limit_log[i].email.raised

\* The rows of flow f in a table.
RowsOf(rows, f) == {r.row : r \in {r \in rows : r.flow_id = f}}

\* C20: after a successful save_flow by the flow's owner, the stored node
\* instances and connections of the flow are exactly the payload's (the
\* graph stored before is gone) and the version returned is the flow's
\* previous version plus one, 1 on the first save.
C20_SaveReplacesGraph ==
    (save_call # NoCall /\ ~save_call[1].out.raised) =>
        LET c == save_call[1]
            f == c.flow_id
        IN
        /\ c.before.flows[f].user_id = c.user_id
        /\ RowsOf(tables.nodes, f) = Range(c.payload.nodes)
        /\ Cardinality(RowsOf(tables.nodes, f)) = Len(c.payload.nodes)
        /\ RowsOf(tables.connections, f) = Range(c.payload.edges)
        /\ Cardinality(RowsOf(tables.connections, f)) = Len(c.payload.edges)
        /\ c.out.value.version = c.before.flows[f].version + 1
        /\ tables.flows[f].version = c.out.value.version
        /\ c.before.flows[f].saves = 0 => c.out.value.version = 1
        /\ \A g \in DOMAIN tables.flows \ {f} :
              /\ RowsOf(tables.nodes, g) = RowsOf(c.before.nodes, g)
              /\ RowsOf(tables.connections, g) = RowsOf(c.before.connections, g)

\* C20, as the code has it: after a successful save_flow by the flow's
\* owner, the stored node instances and connections of the flow are exactly
\* the payload's and the rows of other flows are untouched; the version
\* returned and stored is the version found in the flow's flow_data plus
\* one, 1 when flow_data carried no version (or version 0), whether or not
\* the flow was saved before.
C20_SaveReplacesGraphStoredVersion ==
    (save_call # NoCall /\ ~save_call[1].out.raised) =>
        LET c == save_call[1]
            f == c.flow_id
        IN
        /\ c.before.flows[f].user_id = c.user_id
        /\ RowsOf(tables.nodes, f) = Range(c.payload.nodes)
        /\ Cardinality(RowsOf(tables.nodes, f)) = Len(c.payload.nodes)
        /\ RowsOf(tables.connections, f) = Range(c.payload.edges)
        /\ Cardinality(RowsOf(tables.connections, f)) = Len(c.payload.edges)
        /\ c.out.value.version = c.before.flows[f].version + 1
        /\ tables.flows[f].version = c.out.value.version
        /\ c.before.flows[f].version = 0 => c.out.value.version = 1
        /\ tables.flows[f].saves = c.before.flows[f].saves + 1
        /\ \A g \in DOMAIN tables.flows \ {f} :
              /\ RowsOf(tables.nodes, g) = RowsOf(c.before.nodes, g)
              /\ RowsOf(tables.connections, g) = RowsOf(c.before.connections, g)
              /\ tables.flows[g] = c.before.flows[g]

\* A second save of a flow that replaced a stored node and a stored
\* connection by others.
C20_Witness ==
    /\ save_call # NoCall /\ ~save_call[1].out.raised
    /\ save_call[1].before.flows[save_call[1].flow_id].saves = 1
    /\ RowsOf(save_call[1].before.nodes, save_call[1].flow_id) # {}
    /\ RowsOf(save_call[1].before.connections, save_call[1].flow_id) # {}
    /\ RowsOf(tables.nodes, save_call[1].flow_id)
          # RowsOf(save_call[1].before.nodes, save_call[1].flow_id)
    /\ RowsOf(tables.connections, save_call[1].flow_id)
          # RowsOf(save_call[1].before.connections, save_call[1].flow_id)
    /\ RowsOf(tables.nodes, save_call[1].flow_id) # {}

(* ------------------------------- C21 ---------------------------------- *)
\* The trigger of a run that got as far as executing it.
TriggerStarted == call # NoCall /\ exec_log # <<>>
StartedTrigger == exec_log[1]

\* C21: the context handed to the trigger node's executor holds exactly the
\* keys and values the caller supplied as trigger_inputs.
C21_TriggerContextIsInputs ==
    TriggerStarted => contexts[StartedTrigger] = call[1].trigger_inputs

\* C21, as the code has it: the trigger's context holds the caller's
\* trigger_inputs and the trigger instance's stored settings and nothing
\* else (no routed inputs); a stored setting replaces a supplied key of the
\* same name, so the context is exactly trigger_inputs when the trigger has
\* no stored settings.
C21_TriggerContextInputsAndSettings ==
    TriggerStarted =>
        LET ctx == contexts[StartedTrigger]
            ti == call[1].trigger_inputs
            st == db_nodes[StartedTrigger].settings
        IN
        /\ DOMAIN ctx = DOMAIN ti \cup DOMAIN st
        /\ \A k \in DOMAIN st : ctx[k] = st[k]
        /\ \A k \in DOMAIN ti \ DOMAIN st : ctx[k] = ti[k]
        /\ st = EmptyMap => ctx = ti

\* A trigger with a stored setting named like a supplied input was handed
\* its context.
C21_Witness ==
    /\ TriggerStarted
    /\ "user_input" \in DOMAIN call[1].trigger_inputs
    /\ "user_input" \in DOMAIN db_nodes[StartedTrigger].settings
    /\ "session_id" \in DOMAIN contexts[StartedTrigger]
    /\ StartedTrigger \in executed_nodes

(* ------------------------------- C29 ---------------------------------- *)
\* The execution_context _execute_node_modular was called with for node n:
\* the trigger inputs for the trigger, the port mapping of the connection
\* that executed n otherwise.
ExecutionContextOf(n) ==
    IF via[n] = <<>> THEN call[1].trigger_inputs
    ELSE IF via[n][1].sourceNodeId \notin DOMAIN node_outputs
         THEN [inputs |-> EmptyMap]
         ELSE [inputs |-> MappedInputs(via[n][1],
                                       node_outputs[via[n][1].sourceNodeId])]

TakesConnection == processed' # processed
TakenConnection == processed'[Len(processed')]

\* C22: a node is executed as soon as the first connection reaches it:
\* whenever the loop takes a connection whose target is a stored node not
\* yet executed, the target's executor is called in that very step with the
\* input map built from that connection alone, whether or not the sources
\* of the other connections into the target have executed.
C22_ExecutedOnFirstReach ==
    [][TakesConnection =>
          LET c == TakenConnection
              t == c.targetNodeId
          IN
          (t \notin executed_nodes /\ t \in DOMAIN nodes_by_id) =>
             /\ awaiting' # <<>>
             /\ awaiting'[1].node = t
             /\ exec_log' = Append(exec_log, t)
             /\ awaiting'[1].context =
                   FinalContext(nodes_by_id[t],
                       [inputs |-> MappedInputs(c, node_outputs[c.sourceNodeId])])
             /\ via'[t] = <<c>>]_vars

\* A finished run in which n3, fed by the trigger and by n2, was executed
\* through the trigger's connection before n2 was executed; n2's connection
\* into n3 was taken later and carried other data.
C22_Witness ==
    /\ pc = "done"
    /\ {"n2", "n3"} \subseteq executed_nodes
    /\ via["n3"] # <<>> /\ via["n3"][1].sourceNodeId = "n1"
    /\ ExecIndex("n3") < ExecIndex("n2")
    /\ \E i \in DOMAIN processed :
          /\ processed[i].sourceNodeId = "n2"
          /\ processed[i].targetNodeId = "n3"
          /\ "inputs" \in DOMAIN contexts["n3"]
          /\ contexts["n3"].inputs #
                MappedInputs(processed[i], node_outputs["n2"])

(* ------------------------------- C23 ---------------------------------- *)
\* Nodes whose executor was called and has not completed.
InProgress == {n \in Range(invoked) : n \notin executed_nodes}

\* C23: within one execute_flow run at most one node executor is in
\* progress at any time: an executor in progress is the one the run is
\* awaiting, and no connection is taken while it lasts.
C23_OneExecutorAtATime ==
    /\ Cardinality(InProgress) <= 1
    /\ \A n \in InProgress : awaiting # <<>> /\ awaiting[1].node = n
    /\ awaiting = <<>> => InProgress = {}

\* The executor of a node is in progress while its source has a further
\* connection to a stored node that has not executed: a sibling successor
\* is waiting.
C23_Witness ==
    /\ pc = "running"
    /\ awaiting # <<>> /\ awaiting[1].node \in InProgress
    /\ via[awaiting[1].node] # <<>>
    /\ stack # <<>> /\ Top.todo # <<>>
    /\ Top.node = via[awaiting[1].node][1].sourceNodeId
    /\ \E i \in DOMAIN Top.todo :
          /\ Top.todo[i].targetNodeId \in DOMAIN nodes_by_id
          /\ Top.todo[i].targetNodeId \notin executed_nodes
          /\ Top.todo[i].targetNodeId # awaiting[1].node
          /\ nodes_by_id[Top.todo[i].targetNodeId].typeId \in execution_handlers

(* ------------------------------- C24 ---------------------------------- *)
\* A recursive _execute_connected_nodes call returns to the loop that made it.
ReturnsToLoop == pc = "running" /\ pc' = "running" /\ Len(stack') = Len(stack) - 1

\* Every frame works through the outgoing connections of its node in the
\* order of the connection list, and a connection taken is the next of the
\* innermost loop.
DiscoveryOrder ==
    \A i \in DOMAIN stack :
        LET out == SelectSeq(connections_data,
                             LAMBDA c : c.sourceNodeId = stack[i].node)
        IN
        \E k \in 0..Len(out) : stack[i].todo = SubSeq(out, k + 1, Len(out))

\* Nodes whose loop over their outgoing connections is still open below the
\* innermost one.
OpenBelow == {stack[i].node : i \in 1..(Len(stack) - 1)}

RECURSIVE ClosureAvoiding(_, _)
\* Nodes reachable from S along connections without passing through A.
ClosureAvoiding(S, A) ==
    IF Successors(S) \ A \subseteq S THEN S
    ELSE ClosureAvoiding(S \cup (Successors(S) \ A), A)

\* C24: traversal is depth-first in connection discovery order: when the
\* traversal started at a target returns to the loop of the current node,
\* every node reachable from the target has been executed.
C24_DepthFirst ==
    [][/\ DiscoveryOrder
       /\ ReturnsToLoop => Descendants(Top.node) \subseteq executed_nodes]_vars

\* C24, as the code has it: when the traversal started at a target returns
\* to the loop of the current node, every node reachable from the target
\* without passing through a node whose own loop is still open (the current
\* node and its callers) has been executed; loops take their connections in
\* list order.
C24_DepthFirstBelowOpenLoops ==
    [][/\ DiscoveryOrder
       /\ TakesConnection => TakenConnection = Head(Top.todo)
       /\ ReturnsToLoop =>
             ClosureAvoiding({Top.node}, OpenBelow) \subseteq executed_nodes]_vars

\* A finished run in which n3, a target of the trigger and of n2, was
\* executed from n2 before the trigger's loop came to its own connection
\* into n3.
C24_Witness ==
    /\ pc = "done"
    /\ exec_log = <<"n1", "n2", "n3">>
    /\ via["n3"] # <<>> /\ via["n3"][1].sourceNodeId = "n2"
    /\ \E i \in DOMAIN processed :
          processed[i].sourceNodeId = "n1" /\ processed[i].targetNodeId = "n3"

(* ------------------------------- C25 ---------------------------------- *)
\* The completed execute_node call reached a handler that returned.
RegReturned ==
    /\ RegDone
    /\ reg_call[1].node_type_id \in execution_handlers
    /\ reg_call[1].beh.kind = "return"

\* C25: for an executor that returns normally the result of execute_node
\* has started_at, completed_at and execution_time_ms set and started_at <=
\* completed_at; what the executor set is kept, an unset timestamp is the
\* registry's own start or end measurement, and an unset duration is
\* computed from the result's timestamps.
C25_TimingFilled ==
    RegReturned =>
        LET r == reg_call[1].beh.result
            o == RegOut.value
            start_time == reg_call[1].out[1].t0
            end_time == start_time + reg_call[1].beh.dur
        IN
        /\ ~RegOut.raised
        /\ o.started_at # NoTime /\ o.completed_at # NoTime
        /\ o.execution_time_ms # NoTime
        /\ o.started_at <= o.completed_at
        /\ o.started_at = IF r.started_at # NoTime THEN r.started_at ELSE start_time
        /\ o.completed_at = IF r.completed_at # NoTime THEN r.completed_at ELSE end_time
        /\ o.execution_time_ms =
              IF r.execution_time_ms # NoTime THEN r.execution_time_ms
              ELSE o.completed_at - o.started_at

\* An executor that took one clock unit returned a result with duration 0
\* and its own timestamps, and execute_node returned another duration.
C25_Witness ==
    /\ RegReturned
    /\ reg_call[1].beh.dur = 1
    /\ reg_call[1].beh.result.execution_time_ms = 0
    /\ reg_call[1].beh.result.started_at = reg_call[1].out[1].t0 + 1
    /\ reg_call[1].beh.result.completed_at = reg_call[1].out[1].t0 + 1
    /\ RegOut.value.execution_time_ms # 0

(* ------------------------------- C26 ---------------------------------- *)
\* C26: in and after an execute_flow run every key of execution_results is
\* the trigger or a node reachable from the trigger along connections, a
\* node that is not reachable from the trigger is never executed, and the
\* visited set, the result map and the captured-outputs map hold the same
\* node ids.
C26_OnlyReachableExecuted ==
    pc \in {"running", "done"} =>
        LET reachable == {StartedTrigger} \cup Descendants(StartedTrigger) IN
        /\ StartedTrigger = TheTrigger
        /\ DOMAIN execution_results \subseteq reachable
        /\ Range(exec_log) \subseteq reachable
        /\ Range(invoked) \subseteq reachable
        /\ executed_nodes = DOMAIN execution_results
        /\ executed_nodes = DOMAIN node_outputs
        /\ pc = "done" => summary.execution_results = execution_results

\* A finished run that executed the trigger and a successor and left alone
\* a stored node that has connections of its own but cannot be reached from
\* the trigger.
C26_Witness ==
    /\ pc = "done"
    /\ Cardinality(executed_nodes) = 2
    /\ \E n \in DOMAIN db_nodes \ executed_nodes :
          /\ n \notin Descendants(TheTrigger)
          /\ db_nodes[n].typeId \in execution_handlers
          /\ \E i \in DOMAIN db_connections :
                /\ db_connections[i].sourceNodeId = n
                /\ db_connections[i].targetNodeId \in executed_nodes

(* ------------------------------- C27 ---------------------------------- *)
\* Node instances whose type id is missing or names no registered type.
UnknownTyped ==
    {n \in DOMAIN db_nodes : db_nodes[n].typeId \notin DOMAIN node_types}

\* C27: when triggers are identified, a node instance whose type id is
\* missing or not registered is treated as a non-trigger: the lookup raises
\* no error out of execute_flow and the node does not count in the
\* exactly-one-trigger check, so a flow without a node of a registered
\* trigger type fails with the no-trigger error whatever unknown types it
\* holds, and a flow with one such node runs from it.
C27_UnknownTypeIsNoTrigger ==
    (pc # "idle" /\ ~BadCall) =>
        /\ raised # <<>> => raised[1].exc = "FlowExecutionError"
        /\ TriggerNodes \cap UnknownTyped = {}
        /\ Cardinality(TriggerNodes) = 0 =>
              /\ pc = "failed"
              /\ raised[1].msg = "No trigger node found in flow"
              /\ exec_log = <<>>
        /\ Cardinality(TriggerNodes) = 1 =>
              /\ pc # "failed" /\ raised = <<>>
              /\ exec_log[1] = TheTrigger
        /\ Cardinality(TriggerNodes) > 1 =>
              /\ pc = "failed"
              /\ raised[1].msg = "Multiple trigger nodes found"

\* A call failed with the no-trigger error on a flow that holds a node of
\* an unregistered type and a node without type id beside a processor.
C27_Witness ==
    /\ pc = "failed" /\ ~BadCall
    /\ raised[1].msg = "No trigger node found in flow"
    /\ \E n \in DOMAIN db_nodes : db_nodes[n].typeId = GhostType
    /\ \E n \in DOMAIN db_nodes : db_nodes[n].typeId \in {None, ""}
    /\ \E n \in DOMAIN db_nodes : db_nodes[n].typeId = ProcessorType

(* ------------------------------- C28 ---------------------------------- *)
\* C28: a connection whose target node id is not among the flow's loaded
\* nodes is skipped without error: taking it executes nothing, records no
\* result and marks nothing visited, the run does not fail, and the loop
\* goes on with the remaining outgoing connections of the current node.
C28_MissingTargetSkipped ==
    [][/\ DOMAIN execution_results \subseteq DOMAIN nodes_by_id
       /\ executed_nodes \subseteq DOMAIN nodes_by_id
       /\ DOMAIN node_outputs \subseteq DOMAIN nodes_by_id
       /\ (TakesConnection /\ TakenConnection.targetNodeId \notin DOMAIN nodes_by_id) =>
          /\ pc' = "running" /\ raised' = raised
          /\ awaiting' = <<>>
          /\ UNCHANGED <<execution_results, executed_nodes, node_outputs,
                         exec_log, invoked, contexts>>
          /\ Len(stack') = Len(stack)
          /\ stack'[Len(stack')].node = Top.node
          /\ stack'[Len(stack')].todo = Tail(Top.todo)]_vars

\* A finished run that took a connection to a missing node and executed
\* the target of a later connection of the same source.
C28_Witness ==
    /\ pc = "done"
    /\ \E i, j \in DOMAIN processed :
          /\ i < j
          /\ processed[i].targetNodeId \notin DOMAIN nodes_by_id
          /\ processed[i].targetNodeId \notin DOMAIN summary.execution_results
          /\ processed[j].sourceNodeId = processed[i].sourceNodeId
          /\ processed[j].targetNodeId \in DOMAIN via
          /\ via[processed[j].targetNodeId] = <<processed[j]>>

(* ------------------------------- C30 ---------------------------------- *)
\* Logged calls that read the clock at the instant the i-th did and were
\* let through.
AllowedAt(i) ==
    {j \in DOMAIN limit_log :
        limit_log[j].at = limit_log[i].at /\ ~limit_log[j].result.blocked}

\* Redis answered every GET and accepted every SETEX of the logged calls.
AllWritten == NoFaults /\ \A i \in DOMAIN limit_log : limit_log[i].wrote # <<>>

\* C30: for concurrent is_rate_limited calls on the same key within one
\* window, under every interleaving of their GET and SETEX steps, at most
\* max_attempts of the calls return blocked=False; stated for the calls
\* that read the clock at one instant, which lie in one window, with Redis
\* answering every GET and accepting every SETEX.
C30_AtMostMaxAllowed ==
    AllWritten =>
        \A i \in DOMAIN limit_log :
            Cardinality(AllowedAt(i)) <= limit_log[i].max_attempts

\* With Redis working and a limit of one attempt, a call found no entry
\* although an earlier call of the same instant had stored one that has not
\* expired: its GET came before the other's SETEX, and both were let
\* through.
C30_Witness ==
    /\ AllWritten
    /\ Len(limit_log) >= 2
    /\ limit_log[1].max_attempts = 1
    /\ limit_log[1].at = limit_log[2].at
    /\ limit_log[1].wrote # <<>>
    /\ limit_log[2].at < limit_log[1].wrote[1].expires_at
    /\ limit_log[2].seen = <<>>
    /\ ~limit_log[1].result.blocked /\ ~limit_log[2].result.blocked

=============================================================================
